---- MODULE Spec2Model ----
(***************************************************************************)
(* Model of the BDD construction scripts of bdd_tool:                      *)
(*   src/bdd/formula1_robdd.py     class ROBDD  (reduced, memoized)        *)
(*   src/bdd/formula1_just_bdd.py  class BDD    (unreduced)                *)
(*   src/bdd/formula2_just_bdd.py  class BDD    (unreduced, formula 2)     *)
(* Three builder objects are run one after the other on the same variable  *)
(* order and the same oracle: two ROBDD instances ("r1", "r2") and one BDD *)
(* instance ("u").  The recursion of build is unfolded into an explicit    *)
(* call stack; one action is one stretch of build between two calls.       *)
(***************************************************************************)
EXTENDS Integers, Sequences, FiniteSets, Bags, TLC

\* Longest variable order with a repeated name.
MaxLen == 3

Bit == {0, 1}

\* Every variable name of the model, in the order Python's sorted() puts them.
NameList == <<"a", "b", "c", "d", "x1", "x2", "x3", "x4", "x5">>

\* Names the generic variable orders of distinct names are drawn from.
Names == {"a", "b", "c"}

\* Names the variable orders with a repeated name are drawn from.
DupNames == {"a", "b"}

\* Node.var of a terminal.
NoneVar == "None"

ROBDDs == {"r1", "r2"}
BDDs == {"u"}
Objs == ROBDDs \cup BDDs

\* The caller of build at depth 0 (the __main__ block).
Main == "main"

\* The scripts are run one after the other, each to completion.
RunOrder == <<"r1", "r2", "u">>

VARIABLES
    var_order,     \* self.var_order (the same list is given to every object)
    oracle,        \* the formula, as its table over complete assignments
    nodes,         \* nodes[o]: self.nodes of object o
    unique_table,  \* unique_table[o]: self.unique_table of ROBDD o
    memo,          \* memo[o]: self.memo of ROBDD o
    root,          \* root[o]: root_id of the __main__ block, <<>> until assigned
    self,          \* the object whose build is running, or Main
    stack,         \* the frames of build, innermost last
    ret,           \* the value just returned by build, <<>> if none is pending
    evals,         \* evals[o]: how many times o's build called formula
    computed       \* computed[o]: bag of memo keys whose body o's build ran

vars == <<var_order, oracle, nodes, unique_table, memo, root, self, stack, ret,
          evals, computed>>

----------------------------------------------------------------------------
\* Helpers

Range(s) == {s[i] : i \in 1..Len(s)}

Rank(v) == CHOOSE i \in 1..Len(NameList) : NameList[i] = v

RECURSIVE Pow2(_)
Pow2(n) == IF n = 0 THEN 1 ELSE 2 * Pow2(n - 1)

Last(s) == s[Len(s)]
Pop(s) == SubSeq(s, 1, Len(s) - 1)

\* The empty dict.
EmptyDict == <<>>

\* d[k] = x on a dict: adds the key or overwrites its value.
DictSet(d, k, x) == [y \in DOMAIN d \cup {k} |-> IF y = k THEN x ELSE d[y]]

And(x, y) == IF x = 1 /\ y = 1 THEN 1 ELSE 0
Or(x, y) == IF x = 1 \/ y = 1 THEN 1 ELSE 0
Xor(x, y) == IF x = y THEN 0 ELSE 1

----------------------------------------------------------------------------
\* The two hardcoded formulas and their variable orders

\* (a AND NOT c) OR (b XOR d)
formula1(env) ==
    LET left == And(env["a"], 1 - env["c"])
        right == Xor(env["b"], env["d"])
    IN  IF Or(left, right) = 1 THEN 1 ELSE 0

order1 == <<"a", "c", "b", "d">>

\* order1 with its first name repeated at the end: formula 1 still finds
\* every name it reads.
order1dup == <<"a", "c", "b", "d", "a">>

\* count of 1-bits >= 3
formula2(env) ==
    LET ones == env["x1"] + env["x2"] + env["x3"] + env["x4"] + env["x5"]
    IN  IF ones >= 3 THEN 1 ELSE 0

order2 == <<"x1", "x2", "x3", "x4", "x5">>

Assignments(order) == [Range(order) -> Bit]

\* A formula as the table build consults it.
TableOf1 == [e \in Assignments(order1) |-> formula1(e)]
TableOf2 == [e \in Assignments(order2) |-> formula2(e)]

Distinct(order) == \A i, j \in 1..Len(order) : order[i] = order[j] => i = j

\* Variable orders for the generic oracles: every order of distinct names,
\* and every order with a repeated name up to MaxLen long.
DistinctOrders ==
    {o \in UNION {[1..n -> Names] : n \in 1..Cardinality(Names)} : Distinct(o)}

DupOrders ==
    {o \in UNION {[1..n -> DupNames] : n \in 1..MaxLen} : ~Distinct(o)}

Orders == DistinctOrders \cup DupOrders

----------------------------------------------------------------------------
\* Nodes

Node(var, low, high) == [var |-> var, low |-> low, high |-> high]

\* self.nodes after __init__: id 0 and id 1.  Id i is nodes[i + 1].
Terminals == <<Node(NoneVar, 0, 0), Node(NoneVar, 1, 1)>>

NodeAt(nds, id) == nds[id + 1]

\* tuple(sorted(env_partial.items())): the items in the order of their names.
RECURSIVE SortedItems(_, _)
SortedItems(env, keys) ==
    IF keys = {} THEN <<>>
    ELSE LET k == CHOOSE x \in keys : \A y \in keys : Rank(x) <= Rank(y)
         IN  <<<<k, env[k]>>>> \o SortedItems(env, keys \ {k})

\* Mutant of MemoKey: the assignment left out of the key.
MemoKeyIdxOnly(idx, env) == <<idx, <<>>>>

\* memo_key = (idx, frozen_env)
MemoKey(idx, env) == <<idx, SortedItems(env, DOMAIN env)>>

\* env0 / env1 of build.
Env0(env, v) == DictSet(env, v, 0)

\* Mutant of Env1: the high branch binds v to 0 as well.
Env1BindsZero(env, v) == DictSet(env, v, 0)

Env1(env, v) == DictSet(env, v, 1)

\* Mutant of MemoOwner: memo is one table shared by every ROBDD object.
MemoOwnerShared(o) == "r1"

\* The object whose memo table object o reads and writes.
MemoOwner(o) == o

\* Mutant of MemoHit: the lookup never finds the key.
MemoHitNever(m, key) == FALSE

\* memo_key in self.memo
MemoHit(m, key) == key \in DOMAIN m

\* Mutant of mk: Rule (1) left out.
mk_no_rule1(nds, ut, var, low, high) ==
    LET key == <<var, low, high>>
    IN  IF key \in DOMAIN ut
        THEN [id |-> ut[key], nodes |-> nds, unique_table |-> ut]
        ELSE [id |-> Len(nds),
              nodes |-> Append(nds, Node(var, low, high)),
              unique_table |-> ut @@ (key :> Len(nds))]

\* Mutant of mk: Rule (2) left out, the unique table is never consulted.
mk_no_rule2(nds, ut, var, low, high) ==
    IF low = high
    THEN [id |-> low, nodes |-> nds, unique_table |-> ut]
    ELSE [id |-> Len(nds),
          nodes |-> Append(nds, Node(var, low, high)),
          unique_table |-> [k \in DOMAIN ut \cup {<<var, low, high>>} |->
                               IF k = <<var, low, high>> THEN Len(nds)
                               ELSE ut[k]]]

\* Mutant of mk: the node is appended before Rule (1) is tested.
mk_append_first(nds, ut, var, low, high) ==
    LET key == <<var, low, high>>
        nds2 == Append(nds, Node(var, low, high))
    IN  IF low = high
        THEN [id |-> low, nodes |-> nds2, unique_table |-> ut]
        ELSE IF key \in DOMAIN ut
             THEN [id |-> ut[key], nodes |-> nds, unique_table |-> ut]
             ELSE [id |-> Len(nds), nodes |-> nds2,
                   unique_table |-> ut @@ (key :> Len(nds))]

\* ROBDD.mk: the id returned, and the store and unique table afterwards.
mk(nds, ut, var, low, high) ==
    IF low = high
    THEN [id |-> low, nodes |-> nds, unique_table |-> ut]
    ELSE LET key == <<var, low, high>>
         IN  IF key \in DOMAIN ut
             THEN [id |-> ut[key], nodes |-> nds, unique_table |-> ut]
             ELSE LET nid == Len(nds)
                  IN  [id |-> nid,
                       nodes |-> Append(nds, Node(var, low, high)),
                       unique_table |-> ut @@ (key :> nid)]

\* Mutant of new_node: the append is left out.
new_node_no_append(nds, var, low, high) ==
    [id |-> Len(nds), nodes |-> nds]

\* Mutant of new_node: the id is taken after the append.
new_node_id_after_append(nds, var, low, high) ==
    LET nds2 == Append(nds, Node(var, low, high))
    IN  [id |-> Len(nds2), nodes |-> nds2]

\* BDD.new_node: the id returned and the store afterwards.
new_node(nds, var, low, high) ==
    LET nid == Len(nds)
    IN  [id |-> nid, nodes |-> Append(nds, Node(var, low, high))]

Frame(idx, env) == [idx |-> idx, env |-> env, pc |-> "enter", low_id |-> 0]

----------------------------------------------------------------------------
\* Initial state: the three objects constructed, no build started.

Init ==
    /\ \E o \in Orders \cup {order1, order1dup, order2} :
          /\ var_order = o
          /\ oracle \in IF o \in {order1, order1dup} THEN {TableOf1}
                        ELSE IF o = order2 THEN {TableOf2}
                        ELSE [Assignments(o) -> Bit]
    /\ nodes = [o \in Objs |-> Terminals]
    /\ unique_table = [o \in ROBDDs |-> <<>>]
    /\ memo = [o \in ROBDDs |-> <<>>]
    /\ root = [o \in Objs |-> <<>>]
    /\ self = Main
    /\ stack = <<>>
    /\ ret = <<>>
    /\ evals = [o \in Objs |-> 0]
    /\ computed = [o \in ROBDDs |-> EmptyBag]

----------------------------------------------------------------------------
\* __main__: root_id = obj.build(0, {})

Start(o) ==
    /\ self = Main
    /\ root[o] = <<>>
    /\ \E i \in 1..Len(RunOrder) :
          /\ RunOrder[i] = o
          /\ \A j \in 1..(i - 1) : root[RunOrder[j]] # <<>>
    /\ self' = o
    /\ stack' = <<Frame(0, EmptyDict)>>
    /\ UNCHANGED <<var_order, oracle, nodes, unique_table, memo, root, ret,
                   evals, computed>>

Finish ==
    /\ self # Main
    /\ stack = <<>>
    /\ ret # <<>>
    /\ root' = [root EXCEPT ![self] = ret]
    /\ self' = Main
    /\ ret' = <<>>
    /\ UNCHANGED <<var_order, oracle, nodes, unique_table, memo, stack,
                   evals, computed>>

----------------------------------------------------------------------------
\* ROBDD.build

Entering == stack # <<>> /\ Last(stack).pc = "enter" /\ ret = <<>>

\* memo_key in self.memo: return the cached id.
RBuildMemoHit ==
    /\ self \in ROBDDs
    /\ Entering
    /\ LET f == Last(stack)
           key == MemoKey(f.idx, f.env)
           m == memo[MemoOwner(self)]
       IN  /\ MemoHit(m, key)
           /\ ret' = <<m[key]>>
           /\ stack' = Pop(stack)
    /\ UNCHANGED <<var_order, oracle, nodes, unique_table, memo, root, self,
                   evals, computed>>

\* idx == len(self.var_order): evaluate the formula.
RBuildLeaf ==
    /\ self \in ROBDDs
    /\ Entering
    /\ LET f == Last(stack)
           key == MemoKey(f.idx, f.env)
           m == memo[MemoOwner(self)]
       IN  /\ ~MemoHit(m, key)
           /\ f.idx = Len(var_order)
           /\ LET val == oracle[f.env]
                  out == IF val = 1 THEN 1 ELSE 0
              IN  /\ memo' = [memo EXCEPT ![MemoOwner(self)] =
                                 IF key \in DOMAIN m
                                 THEN [m EXCEPT ![key] = out]
                                 ELSE m @@ (key :> out)]
                  /\ ret' = <<out>>
           /\ computed' = [computed EXCEPT ![self] = @ (+) SetToBag({key})]
    /\ evals' = [evals EXCEPT ![self] = @ + 1]
    /\ stack' = Pop(stack)
    /\ UNCHANGED <<var_order, oracle, nodes, unique_table, root, self>>

\* Otherwise: call build(idx + 1, env0).
RBuildSplit ==
    /\ self \in ROBDDs
    /\ Entering
    /\ LET f == Last(stack)
           key == MemoKey(f.idx, f.env)
           m == memo[MemoOwner(self)]
       IN  /\ ~MemoHit(m, key)
           /\ f.idx # Len(var_order)
           /\ LET v == var_order[f.idx + 1]
              IN  stack' = Append([stack EXCEPT ![Len(stack)].pc = "low"],
                                  Frame(f.idx + 1, Env0(f.env, v)))
           /\ computed' = [computed EXCEPT ![self] = @ (+) SetToBag({key})]
    /\ UNCHANGED <<var_order, oracle, nodes, unique_table, memo, root, self,
                   ret, evals>>

\* low_id is back: call build(idx + 1, env1).
RBuildLow ==
    /\ self \in ROBDDs
    /\ stack # <<>>
    /\ Last(stack).pc = "low"
    /\ ret # <<>>
    /\ LET f == Last(stack)
           v == var_order[f.idx + 1]
       IN  stack' = Append([stack EXCEPT ![Len(stack)].pc = "high",
                                         ![Len(stack)].low_id = ret[1]],
                           Frame(f.idx + 1, Env1(f.env, v)))
    /\ ret' = <<>>
    /\ UNCHANGED <<var_order, oracle, nodes, unique_table, memo, root, self,
                   evals, computed>>

\* high_id is back: out = self.mk(v, low_id, high_id); memoize; return.
RBuildHigh ==
    /\ self \in ROBDDs
    /\ stack # <<>>
    /\ Last(stack).pc = "high"
    /\ ret # <<>>
    /\ LET f == Last(stack)
           key == MemoKey(f.idx, f.env)
           m == memo[MemoOwner(self)]
           v == var_order[f.idx + 1]
           r == mk(nodes[self], unique_table[self], v, f.low_id, ret[1])
       IN  /\ nodes' = [nodes EXCEPT ![self] = r.nodes]
           /\ unique_table' = [unique_table EXCEPT ![self] = r.unique_table]
           /\ memo' = [memo EXCEPT ![MemoOwner(self)] =
                          IF key \in DOMAIN m
                          THEN [m EXCEPT ![key] = r.id]
                          ELSE m @@ (key :> r.id)]
           /\ ret' = <<r.id>>
    /\ stack' = Pop(stack)
    /\ UNCHANGED <<var_order, oracle, root, self, evals, computed>>

----------------------------------------------------------------------------
\* BDD.build

UBuildLeaf ==
    /\ self \in BDDs
    /\ Entering
    /\ LET f == Last(stack)
       IN  /\ f.idx = Len(var_order)
           /\ LET val == oracle[f.env]
              IN  ret' = <<IF val = 1 THEN 1 ELSE 0>>
    /\ evals' = [evals EXCEPT ![self] = @ + 1]
    /\ stack' = Pop(stack)
    /\ UNCHANGED <<var_order, oracle, nodes, unique_table, memo, root, self,
                   computed>>

UBuildSplit ==
    /\ self \in BDDs
    /\ Entering
    /\ LET f == Last(stack)
       IN  /\ f.idx # Len(var_order)
           /\ LET v == var_order[f.idx + 1]
              IN  stack' = Append([stack EXCEPT ![Len(stack)].pc = "low"],
                                  Frame(f.idx + 1, Env0(f.env, v)))
    /\ UNCHANGED <<var_order, oracle, nodes, unique_table, memo, root, self,
                   ret, evals, computed>>

UBuildLow ==
    /\ self \in BDDs
    /\ stack # <<>>
    /\ Last(stack).pc = "low"
    /\ ret # <<>>
    /\ LET f == Last(stack)
           v == var_order[f.idx + 1]
       IN  stack' = Append([stack EXCEPT ![Len(stack)].pc = "high",
                                         ![Len(stack)].low_id = ret[1]],
                           Frame(f.idx + 1, Env1(f.env, v)))
    /\ ret' = <<>>
    /\ UNCHANGED <<var_order, oracle, nodes, unique_table, memo, root, self,
                   evals, computed>>

UBuildHigh ==
    /\ self \in BDDs
    /\ stack # <<>>
    /\ Last(stack).pc = "high"
    /\ ret # <<>>
    /\ LET f == Last(stack)
           v == var_order[f.idx + 1]
           r == new_node(nodes[self], v, f.low_id, ret[1])
       IN  /\ nodes' = [nodes EXCEPT ![self] = r.nodes]
           /\ ret' = <<r.id>>
    /\ stack' = Pop(stack)
    /\ UNCHANGED <<var_order, oracle, unique_table, memo, root, self, evals,
                   computed>>

----------------------------------------------------------------------------

Next ==
    \/ \E o \in Objs : Start(o)
    \/ Finish
    \/ RBuildMemoHit
    \/ RBuildLeaf
    \/ RBuildSplit
    \/ RBuildLow
    \/ RBuildHigh
    \/ UBuildLeaf
    \/ UBuildSplit
    \/ UBuildLow
    \/ UBuildHigh

Spec == Init /\ [][Next]_vars

----------------------------------------------------------------------------
\* Reading a finished diagram

Done(o) == root[o] # <<>>
RootOf(o) == root[o][1]

ValidId(nds, id) == id \in 0..(Len(nds) - 1)
IsTerminal(nds, id) == NodeAt(nds, id).var = NoneVar

\* Ids of the non-terminal nodes of a store, as the exporter lists them.
Internal(nds) == 2..(Len(nds) - 1)

Triple(n) == <<n.var, n.low, n.high>>

\* The terminal reached from id by taking low where A is 0 and high where A is 1.
RECURSIVE Walk(_, _, _)
Walk(nds, id, A) ==
    IF IsTerminal(nds, id) THEN id
    ELSE LET n == NodeAt(nds, id)
         IN  Walk(nds, IF A[n.var] = 0 THEN n.low ELSE n.high, A)

\* The ids reachable from id along low and high edges.
RECURSIVE Reach(_, _)
Reach(nds, id) ==
    IF ~ValidId(nds, id) \/ IsTerminal(nds, id) THEN {id}
    ELSE {id} \cup Reach(nds, NodeAt(nds, id).low)
              \cup Reach(nds, NodeAt(nds, id).high)

\* The pairs of ids met when two diagrams are walked in step from i and j.
Alike(n1, i, n2, j) ==
    /\ ValidId(n1, i)
    /\ ValidId(n2, j)
    /\ NodeAt(n1, i).var = NodeAt(n2, j).var
    /\ IsTerminal(n1, i) => i = j

RECURSIVE Paired(_, _, _, _)
Paired(n1, i, n2, j) ==
    IF ~Alike(n1, i, n2, j) \/ IsTerminal(n1, i) THEN {<<i, j>>}
    ELSE {<<i, j>>}
         \cup Paired(n1, NodeAt(n1, i).low, n2, NodeAt(n2, j).low)
         \cup Paired(n1, NodeAt(n1, i).high, n2, NodeAt(n2, j).high)

\* Same labels and edges from the roots, up to a renumbering of the ids.
Isomorphic(n1, r1, n2, r2) ==
    LET P == Paired(n1, r1, n2, r2)
    IN  /\ \A p \in P : Alike(n1, p[1], n2, p[2])
        /\ \A p, q \in P : (p[1] = q[1]) <=> (p[2] = q[2])

\* A memo entry of a non-leaf call whose value is not a node on that call's
\* variable: mk returned the common child (Rule 1).
Collapsed(r, key) ==
    /\ key[1] < Len(var_order)
    /\ NodeAt(nodes[r], memo[r][key]).var # var_order[key[1] + 1]

\* The top frame is about to call mk / new_node.
AtMk == stack # <<>> /\ Last(stack).pc = "high" /\ ret # <<>>

----------------------------------------------------------------------------
\* C1  Functional equivalence: once a reduced build over distinct names has
\* returned its root, walking from the root along any complete assignment A
\* ends at the terminal oracle(A); with order [a,c,b,d] and formula 1,
\* a=1,c=0,b=0,d=0 ends at 1 and a=0,c=1,b=0,d=0 ends at 0.

ExampleOne == [v \in Range(order1) |-> IF v = "a" THEN 1 ELSE 0]
ExampleZero == [v \in Range(order1) |-> IF v = "c" THEN 1 ELSE 0]

FunctionalEquivalence ==
    \A r \in ROBDDs :
        (Done(r) /\ Distinct(var_order)) =>
            /\ \A A \in Assignments(var_order) :
                  Walk(nodes[r], RootOf(r), A) = oracle[A]
            /\ (var_order = order1 /\ oracle = TableOf1) =>
                  /\ Walk(nodes[r], RootOf(r), ExampleOne) = 1
                  /\ Walk(nodes[r], RootOf(r), ExampleZero) = 0

FunctionalEquivalenceWitness ==
    /\ Done("r1")
    /\ var_order = order1
    /\ ~IsTerminal(nodes["r1"], RootOf("r1"))
    /\ Walk(nodes["r1"], RootOf("r1"), ExampleOne) = 1
    /\ Walk(nodes["r1"], RootOf("r1"), ExampleZero) = 0

\* C2  Canonicity: at every moment of a reduced build and after it, no two
\* different non-terminal ids carry the same (var, low, high).

Canonicity ==
    \A r \in ROBDDs :
        \A i, j \in Internal(nodes[r]) :
            i # j => Triple(NodeAt(nodes[r], i)) # Triple(NodeAt(nodes[r], j))

\* Two different subproblems of one depth got the same node on that depth's
\* variable: the second mk found it in the unique table.
CanonicityWitness ==
    /\ Distinct(var_order)
    /\ \E k1, k2 \in DOMAIN memo["r1"] :
          /\ k1 # k2
          /\ k1[1] = k2[1]
          /\ memo["r1"][k1] = memo["r1"][k2]
          /\ memo["r1"][k1] \in Internal(nodes["r1"])
          /\ ~Collapsed("r1", k1)
          /\ ~Collapsed("r1", k2)

\* C3  Rule 1: no non-terminal node of a reduced store ever has low = high,
\* and mk called with low = high returns that child and leaves the store and
\* the unique table as they were.

NoRedundantNode ==
    \A r \in ROBDDs :
        \A i \in Internal(nodes[r]) :
            NodeAt(nodes[r], i).low # NodeAt(nodes[r], i).high

Rule1Step ==
    (self \in ROBDDs /\ AtMk /\ Last(stack).low_id = ret[1]) =>
        /\ ret' = <<Last(stack).low_id>>
        /\ UNCHANGED <<nodes, unique_table>>

Rule1Enforcement == []NoRedundantNode /\ [][Rule1Step]_vars

Rule1EnforcementWitness ==
    /\ Len(nodes["r1"]) > 2
    /\ \E key \in DOMAIN memo["r1"] : Collapsed("r1", key)

\* C4  Sharing monotonicity: for an order of distinct names, the reduced
\* store is no longer than the unreduced store built from the same order
\* and oracle.

SharingMonotonicity ==
    \A r \in ROBDDs : \A u \in BDDs :
        (Done(r) /\ Done(u) /\ Distinct(var_order)) =>
            Len(nodes[r]) <= Len(nodes[u])

SharingMonotonicityWitness ==
    /\ Done("r1")
    /\ Done("u")
    /\ Distinct(var_order)
    /\ Len(nodes["r1"]) > 2
    /\ Len(nodes["r1"]) < Len(nodes["u"])

\* C5  Determinism: two reduced builds of the same order and oracle, each
\* on its own store, unique table and memo, end with isomorphic diagrams.

DuplicateOrderRejected ==
    \A o \in Objs : ~Distinct(var_order) => ~Done(o)

\* C7  Memoization bound: the body of the reduced build past the memo
\* lookup runs at most once per memo key, exactly once for every key of a
\* finished build, and a written memo entry keeps its value.

ComputedOnce ==
    \A r \in ROBDDs :
        /\ \A key \in BagToSet(computed[r]) : CopiesIn(key, computed[r]) = 1
        /\ Done(r) => BagToSet(computed[r]) = DOMAIN memo[r]

MemoWriteOnce ==
    \A r \in ROBDDs :
        \A key \in DOMAIN memo[r] :
            /\ key \in DOMAIN memo'[r]
            /\ memo'[r][key] = memo[r][key]

MemoizationBound == []ComputedOnce /\ [][MemoWriteOnce]_vars

\* A finished build that ran fewer bodies than its call tree has calls:
\* some calls were answered from the memo.
MemoizationBoundWitness ==
    /\ Done("r1")
    /\ BagCardinality(computed["r1"]) > 0
    /\ BagCardinality(computed["r1"]) < Pow2(Len(var_order) + 1) - 1

\* C8  Oracle-work bound as claimed: over n distinct variables a finished
\* build, reduced or unreduced, has evaluated the oracle at most 2^n times
\* and at most once per node of its final store.

OracleWorkBoundAsClaimed ==
    \A o \in Objs :
        (Done(o) /\ Distinct(var_order)) =>
            /\ evals[o] <= Pow2(Len(var_order))
            /\ evals[o] <= Len(nodes[o])

\* C8 as amended: over n distinct variables the oracle is evaluated at most
\* 2^n times, exactly 2^n times by a finished build of either kind, and the
\* evaluations of the unreduced build do not exceed its final store.

OracleWorkBound ==
    \A o \in Objs :
        Distinct(var_order) =>
            /\ evals[o] <= Pow2(Len(var_order))
            /\ Done(o) => evals[o] = Pow2(Len(var_order))
            /\ (Done(o) /\ o \in BDDs) => evals[o] <= Len(nodes[o])

OracleWorkBoundWitness ==
    /\ Done("r1")
    /\ Done("u")
    /\ Distinct(var_order)
    /\ evals["r1"] = Pow2(Len(var_order))
    /\ evals["r1"] > Len(nodes["r1"])
    /\ evals["u"] <= Len(nodes["u"])

\* C9  The unreduced build allocates unconditionally: each non-leaf call
\* appends exactly one node whose id is the previous length of the store,
\* nothing else changes the store, and a finished build over an order of
\* length n holds 2^n - 1 non-terminal nodes with the root the last id.

UnreducedFinal ==
    \A u \in BDDs :
        Done(u) =>
            /\ Cardinality(Internal(nodes[u])) = Pow2(Len(var_order)) - 1
            /\ RootOf(u) = Len(nodes[u]) - 1

UnreducedStep ==
    \A u \in BDDs :
        /\ \A i \in 1..Len(nodes[u]) :
              i <= Len(nodes'[u]) /\ nodes'[u][i] = nodes[u][i]
        /\ IF self = u /\ AtMk
           THEN /\ Len(nodes'[u]) = Len(nodes[u]) + 1
                /\ ret' = <<Len(nodes[u])>>
                /\ Last(nodes'[u]) =
                      Node(var_order[Last(stack).idx + 1],
                           Last(stack).low_id, ret[1])
           ELSE nodes'[u] = nodes[u]

UnreducedAllocates == []UnreducedFinal /\ [][UnreducedStep]_vars

\* A finished unreduced store holding a node with low = high and two nodes
\* with the same (var, low, high).
UnreducedAllocatesWitness ==
    /\ Done("u")
    /\ \E i \in Internal(nodes["u"]) :
          NodeAt(nodes["u"], i).low = NodeAt(nodes["u"], i).high
    /\ \E i, j \in Internal(nodes["u"]) :
          i # j /\ Triple(NodeAt(nodes["u"], i)) = Triple(NodeAt(nodes["u"], j))

\* C10  No orphans: once the reduced build has returned its root, every
\* non-terminal node of the store is reachable from the root.

NoOrphans ==
    \A r \in ROBDDs :
        Done(r) => Internal(nodes[r]) \subseteq Reach(nodes[r], RootOf(r))

\* A finished store with several nodes in which some call collapsed onto a
\* non-terminal child.
NoOrphansWitness ==
    /\ Done("r1")
    /\ Len(nodes["r1"]) > 3
    /\ \E key \in DOMAIN memo["r1"] :
          Collapsed("r1", key) /\ memo["r1"][key] \in Internal(nodes["r1"])

====
